---- MODULE Spec2Model ----
(***************************************************************************)
(* TriggerContainer (src/src/Containers/TriggerContainer.js): the view     *)
(* state controller of one trigger.  The module models this.state, the     *)
(* async invocations of getData and of the three mutations (each await is  *)
(* a suspension point, the code between two awaits is one atomic step of   *)
(* the single JavaScript thread), the API calls they issue, the sort       *)
(* selection and sortMetrics.                                              *)
(***************************************************************************)
EXTENDS Integers, Sequences, FiniteSets, TLC

VARIABLES
    state,      \* this.state
    props,      \* this.props (match.params.id)
    mounted,    \* componentDidMount has run
    tasks,      \* the invocations of the async methods, in invocation order
    calls,      \* the moiraApi calls issued so far
    items       \* the items handed to MetricList by the last render

vars == <<state, props, mounted, tasks, calls, items>>

(***************************************************************************)
(* Bounds                                                                  *)
(***************************************************************************)
MaxTasks == 5       \* async invocations (getData cycles and mutations)
MaxMetrics == 3     \* metrics in a map handed to sortMetrics

(***************************************************************************)
(* JavaScript values                                                       *)
(***************************************************************************)
Null == [kind |-> "null"]
NoError == "null"
Str(s) == [type |-> "string", val |-> s]
Undefined == [type |-> "undefined", val |-> ""]
TypeOf(v) == v.type

\* Strings that are inspected character by character (metric names) are
\* sequences of one-character strings.
CharCode(c) ==
    CASE c = " " -> 32
      [] c = "!" -> 33
      [] c = "-" -> 45
      [] c = "." -> 46
      [] c = "1" -> 49
      [] c = "2" -> 50
      [] c = "A" -> 65
      [] c = "a" -> 97
      [] c = "b" -> 98

IsWhiteSpace(c) == CharCode(c) = 32

IsDigit(c) == CharCode(c) >= 48 /\ CharCode(c) <= 57

\* a character the regex /[^a-zA-Z0-9-.]/ does not match
RegexKeeps(c) ==
    \/ CharCode(c) >= 97 /\ CharCode(c) <= 122
    \/ CharCode(c) >= 65 /\ CharCode(c) <= 90
    \/ IsDigit(c)
    \/ CharCode(c) = 45
    \/ CharCode(c) = 46

LowerChar(c) == IF c = "A" THEN "a" ELSE c

RECURSIVE TrimStart(_)
TrimStart(s) ==
    IF s # <<>> /\ IsWhiteSpace(Head(s)) THEN TrimStart(Tail(s)) ELSE s

RECURSIVE TrimEnd(_)
TrimEnd(s) ==
    IF s # <<>> /\ IsWhiteSpace(s[Len(s)])
    THEN TrimEnd(SubSeq(s, 1, Len(s) - 1))
    ELSE s

trim(s) == TrimEnd(TrimStart(s))

replace(s) == SelectSeq(s, RegexKeeps)

toLowerCase(s) == [i \in 1..Len(s) |-> LowerChar(s[i])]

\* s < t on JavaScript strings: lexicographic on the code units
RECURSIVE StrLess(_, _)
StrLess(s, t) ==
    IF t = <<>> THEN FALSE
    ELSE IF s = <<>> THEN TRUE
    ELSE IF CharCode(Head(s)) < CharCode(Head(t)) THEN TRUE
    ELSE IF CharCode(Head(s)) > CharCode(Head(t)) THEN FALSE
    ELSE StrLess(Tail(s), Tail(t))

(***************************************************************************)
(* JavaScript objects used as maps: the own keys in their enumeration      *)
(* order (array-index keys first, ascending, then the other keys in        *)
(* insertion order) and the value of each key.                             *)
(***************************************************************************)
EmptyObject == [keys |-> <<>>, rec |-> <<>>]

ObjectKeys(obj) == obj.keys

KeySet(obj) == {obj.keys[i] : i \in 1..Len(obj.keys)}

IsArrayIndex(k) ==
    /\ k # <<>>
    /\ \A i \in 1..Len(k) : IsDigit(k[i])
    /\ (Len(k) = 1 \/ CharCode(k[1]) # 48)

RECURSIVE NumVal(_)
NumVal(k) ==
    IF k = <<>> THEN 0
    ELSE 10 * NumVal(SubSeq(k, 1, Len(k) - 1)) + (CharCode(k[Len(k)]) - 48)

InsertKey(keys, k) ==
    IF IsArrayIndex(k)
    THEN LET p == Cardinality({i \in 1..Len(keys) :
                      IsArrayIndex(keys[i]) /\ NumVal(keys[i]) < NumVal(k)})
         IN SubSeq(keys, 1, p) \o <<k>> \o SubSeq(keys, p + 1, Len(keys))
    ELSE Append(keys, k)

\* { ...data, [key]: value }
SpreadPut(data, key, value) ==
    IF key \in KeySet(data)
    THEN [keys |-> data.keys,
          rec |-> [x \in KeySet(data) |-> IF x = key THEN value ELSE data.rec[x]]]
    ELSE [keys |-> InsertKey(data.keys, key),
          rec |-> [x \in KeySet(data) \cup {key} |->
                      IF x = key THEN value ELSE data.rec[x]]]

RECURSIVE ObjectOf(_, _)
\* the object built by assigning keys[i] := recs[i] in order
ObjectOf(keys, recs) ==
    IF keys = <<>> THEN EmptyObject
    ELSE SpreadPut(ObjectOf(SubSeq(keys, 1, Len(keys) - 1),
                            SubSeq(recs, 1, Len(recs) - 1)),
                   keys[Len(keys)], recs[Len(recs)])

(***************************************************************************)
(* Metric Sort Engine: sortMetrics                                         *)
(***************************************************************************)
\* Domain/Status getStatusWeight: a total order of the statuses by severity
getStatusWeight(status) ==
    CASE status = "OK" -> 1
      [] status = "WARN" -> 10
      [] status = "ERROR" -> 100
      [] status = "NODATA" -> 1000

HasField(m, f) == f \in DOMAIN m

\* A < B on two event_timestamp values, either of which may be undefined:
\* a relational comparison with undefined is false
EventLess(ma, mb) ==
    /\ HasField(ma, "event_timestamp")
    /\ HasField(mb, "event_timestamp")
    /\ ma.event_timestamp < mb.event_timestamp

\* a value read without the || 0: an absent value ranks below every number
ValueOrZero_AbsentBelow(m) ==
    IF HasField(m, "value") THEN m.value ELSE -1

\* metrics[a].value || 0
ValueOrZero(m) ==
    IF HasField(m, "value") /\ m.value # 0 THEN m.value ELSE 0

stateFn(sortingDown, metrics, a, b) ==
    LET A == getStatusWeight(metrics.rec[a].state)
        B == getStatusWeight(metrics.rec[b].state)
    IN IF A < B THEN (IF sortingDown THEN -1 ELSE 1)
       ELSE IF A > B THEN (IF sortingDown THEN 1 ELSE -1)
       ELSE 0

\* a name comparator that does not lowercase
nameFn_CaseSensitive(sortingDown, metrics, a, b) ==
    LET A == replace(trim(a))
        B == replace(trim(b))
    IN IF StrLess(A, B) THEN (IF sortingDown THEN -1 ELSE 1)
       ELSE IF StrLess(B, A) THEN (IF sortingDown THEN 1 ELSE -1)
       ELSE 0

nameFn(sortingDown, metrics, a, b) ==
    LET A == toLowerCase(replace(trim(a)))
        B == toLowerCase(replace(trim(b)))
    IN IF StrLess(A, B) THEN (IF sortingDown THEN -1 ELSE 1)
       ELSE IF StrLess(B, A) THEN (IF sortingDown THEN 1 ELSE -1)
       ELSE 0

eventFn(sortingDown, metrics, a, b) ==
    LET A == metrics.rec[a]
        B == metrics.rec[b]
    IN IF EventLess(A, B) THEN (IF sortingDown THEN -1 ELSE 1)
       ELSE IF EventLess(B, A) THEN (IF sortingDown THEN 1 ELSE -1)
       ELSE 0

valueFn(sortingDown, metrics, a, b) ==
    LET A == ValueOrZero(metrics.rec[a])
        B == ValueOrZero(metrics.rec[b])
    IN IF A < B THEN (IF sortingDown THEN -1 ELSE 1)
       ELSE IF A > B THEN (IF sortingDown THEN 1 ELSE -1)
       ELSE 0

\* sortingFn[sorting](a, b)
sortingFn(sorting, sortingDown, metrics, a, b) ==
    CASE sorting = "state" -> stateFn(sortingDown, metrics, a, b)
      [] sorting = "name" -> nameFn(sortingDown, metrics, a, b)
      [] sorting = "event" -> eventFn(sortingDown, metrics, a, b)
      [] sorting = "value" -> valueFn(sortingDown, metrics, a, b)

\* Array.prototype.sort(comparefn) on a short array: the engine's insertion
\* sort.  InsertElement moves element left past every a[j] with
\* comparefn(a[j], element) > 0 and stops at the first a[j] without.
RECURSIVE InsertElement(_, _, _, _, _, _)
InsertElement(a, element, j, sorting, sortingDown, metrics) ==
    IF j >= 1 /\ sortingFn(sorting, sortingDown, metrics, a[j], element) > 0
    THEN InsertElement(a, element, j - 1, sorting, sortingDown, metrics)
    ELSE SubSeq(a, 1, j) \o <<element>> \o SubSeq(a, j + 1, Len(a))

RECURSIVE ArraySort(_, _, _, _)
ArraySort(arr, sorting, sortingDown, metrics) ==
    IF Len(arr) <= 1 THEN arr
    ELSE LET n == Len(arr)
             prefix == ArraySort(SubSeq(arr, 1, n - 1), sorting, sortingDown, metrics)
         IN InsertElement(prefix, arr[n], n - 1, sorting, sortingDown, metrics)

\* a reducer that forgets the keys accumulated so far
ReduceStep_NoSpread(data, key, metrics) ==
    [keys |-> <<key>>, rec |-> [x \in {key} |-> metrics.rec[key]]]

\* .reduce((data, key) => ({ ...data, [key]: metrics[key] }), {})
ReduceStep(data, key, metrics) == SpreadPut(data, key, metrics.rec[key])

RECURSIVE Reduce(_, _)
Reduce(keys, metrics) ==
    IF keys = <<>> THEN EmptyObject
    ELSE ReduceStep(Reduce(SubSeq(keys, 1, Len(keys) - 1), metrics),
                    keys[Len(keys)], metrics)

sortMetrics(metrics, sorting, sortingDown) ==
    Reduce(ArraySort(ObjectKeys(metrics), sorting, sortingDown, metrics), metrics)

(***************************************************************************)
(* render: what is shown and which callbacks exist                         *)
(***************************************************************************)
MetricsOf(st) ==
    IF st.triggerState = Null THEN EmptyObject ELSE st.triggerState.metrics

isMetrics(st) == Len(ObjectKeys(MetricsOf(st))) > 0

\* TriggerInfo (onThrottlingRemove) is rendered
ShowsTriggerInfo(st) == st.trigger # Null

\* MetricList (onSort, onChange, onRemove) is rendered
ShowsMetricList(st) == isMetrics(st) /\ st.trigger # Null

\* items={this.sortMetrics(metrics)}
RenderItems(st) ==
    IF ShowsMetricList(st)
    THEN sortMetrics(MetricsOf(st), st.sorting, st.sortingDown)
    ELSE Null

(***************************************************************************)
(* The controller                                                          *)
(***************************************************************************)
NetworkError == "Network error. Please, reload page"

SortKeys == {"state", "name", "event", "value"}

\* the values match.params.id can have when the component is mounted
PropIds == {Str("t1"), Undefined}

\* Domain/Maintenance getMaintenanceTime: the duration in minutes
Maintenances == {"off", "quarterHour"}
getMaintenanceTime(maintenance) ==
    CASE maintenance = "off" -> 0
      [] maintenance = "quarterHour" -> 15

\* the Unix times moment.utc() can read
Times == {1000}

\* the metric maps the API can answer getTriggerState with
Metric(st, ts, v) == [state |-> st, event_timestamp |-> ts, value |-> v]
ServerMetrics ==
    {EmptyObject,
     ObjectOf(<< <<"b">> >>, <<Metric("OK", 5, 0)>>)}

InitialState ==
    [loading |-> TRUE,
     error |-> NoError,
     trigger |-> Null,
     triggerState |-> Null,
     triggerEvents |-> Null,
     sorting |-> "value",
     sortingDown |-> TRUE]

\* this.setState(patch)
setState(st, patch) ==
    [f \in DOMAIN st |-> IF f \in DOMAIN patch THEN patch[f] ELSE st[f]]

ReadPcs == {"getTrigger", "getTriggerState", "getTriggerEvents"}
MutationKinds == {"disableTrhrottling", "setMaintenance", "removeMetric"}

\* the arguments of an invocation besides the trigger id, and the time it read
NoArgs == [maintenance |-> "", metric |-> <<>>, now |-> 0]

Task(kind, pc, id, caller) ==
    [kind |-> kind, pc |-> pc, id |-> id, caller |-> caller,
     trigger |-> Null, triggerState |-> Null, args |-> NoArgs]

\* moiraApi.<op>(id): the n-th call issued by invocation t
ReadCall(C, t, op, id) ==
    [task |-> t,
     n |-> Cardinality({c \in C : c.task = t}) + 1,
     op |-> op, id |-> id]

\* moiraApi.<op>(id, ...) issued by invocation t while this.state.loading = loading
WriteCall(C, t, op, id, loading, metric, payload) ==
    [task |-> t,
     n |-> Cardinality({c \in C : c.task = t}) + 1,
     op |-> op, id |-> id, loading |-> loading,
     metric |-> metric, payload |-> payload]

WriteOps == {"delThrottling", "setMaintenance", "delMetric"}

WriteOpOf(kind) ==
    CASE kind = "disableTrhrottling" -> "delThrottling"
      [] kind = "setMaintenance" -> "setMaintenance"
      [] kind = "removeMetric" -> "delMetric"

\* a getData that issues the three reads at once
getData_AllAtOnce(T, C, p, caller) ==
    LET t == Len(T) + 1
    IN IF TypeOf(p.id) # "string"
       THEN [tasks |-> Append(T, Task("getData", "returned", p.id, caller)),
             calls |-> C]
       ELSE [tasks |-> Append(T, Task("getData", "getTrigger", p.id, caller)),
             calls |-> C \cup {[task |-> t, n |-> 1, op |-> "getTrigger", id |-> p.id],
                               [task |-> t, n |-> 2, op |-> "getTriggerState", id |-> p.id],
                               [task |-> t, n |-> 3, op |-> "getTriggerEvents", id |-> p.id]}]

\* getData without the typeof test
getData_NoTypeTest(T, C, p, caller) ==
    [tasks |-> Append(T, Task("getData", "getTrigger", p.id, caller)),
     calls |-> C \cup {[task |-> Len(T) + 1,
                        n |-> 1, op |-> "getTrigger", id |-> p.id]}]

\* getData(props), up to its first await: the invocation called by `caller`
\* (0: componentDidMount, m: mutation m)
getData(T, C, p, caller) ==
    LET t == Len(T) + 1
    IN IF TypeOf(p.id) # "string"
       THEN [tasks |-> Append(T, Task("getData", "returned", p.id, caller)),
             calls |-> C]
       ELSE [tasks |-> Append(T, Task("getData", "getTrigger", p.id, caller)),
             calls |-> C \cup {ReadCall(C, t, "getTrigger", p.id)}]

\* a commit that keeps the data shown when they come from a cycle called later
CommitSuccess_DropsStale(st, trigger, triggerState, triggerEvents) ==
    IF st.trigger # Null /\ st.trigger.cycle > trigger.cycle
    THEN [st EXCEPT !.loading = FALSE]
    ELSE [st EXCEPT !.loading = FALSE, !.trigger = trigger,
                    !.triggerState = triggerState,
                    !.triggerEvents = triggerEvents]

\* a commit that also clears the error
CommitSuccess_ClearsError(st, trigger, triggerState, triggerEvents) ==
    [st EXCEPT !.loading = FALSE, !.error = NoError, !.trigger = trigger,
               !.triggerState = triggerState, !.triggerEvents = triggerEvents]

\* a commit that also resets the sort selection
CommitSuccess_ResetsSort(st, trigger, triggerState, triggerEvents) ==
    [st EXCEPT !.loading = FALSE, !.trigger = trigger,
               !.triggerState = triggerState, !.triggerEvents = triggerEvents,
               !.sorting = "value", !.sortingDown = TRUE]

\* a commit that leaves loading as it is
CommitSuccess_KeepsLoading(st, trigger, triggerState, triggerEvents) ==
    [st EXCEPT !.trigger = trigger, !.triggerState = triggerState,
               !.triggerEvents = triggerEvents]

\* a commit that leaves triggerEvents out
CommitSuccess_Partial(st, trigger, triggerState, triggerEvents) ==
    [st EXCEPT !.loading = FALSE, !.trigger = trigger,
               !.triggerState = triggerState]

\* this.setState({ loading: false, trigger, triggerState, triggerEvents })
CommitSuccess(st, trigger, triggerState, triggerEvents) ==
    setState(st, [loading |-> FALSE,
                  trigger |-> trigger,
                  triggerState |-> triggerState,
                  triggerEvents |-> triggerEvents])

\* a catch block that also wipes the trigger
CommitFailure_WipesData(st) ==
    [st EXCEPT !.error = NetworkError, !.trigger = Null]

\* a catch block that also clears loading
CommitFailure_ClearsLoading(st) ==
    [st EXCEPT !.error = NetworkError, !.loading = FALSE]

\* catch (error) { this.setState({ error: 'Network error. Please, reload page' }) }
CommitFailure(st) == setState(st, [error |-> NetworkError])

\* a mutation that issues its write call before setState({ loading: true })
MutationStart_CallFirst(st, T, C, kind, triggerId, metric, payload) ==
    [state |-> [st EXCEPT !.loading = TRUE],
     tasks |-> Append(T, Task(kind, "write", triggerId, 0)),
     calls |-> C \cup {[task |-> Len(T) + 1, n |-> 1, op |-> WriteOpOf(kind),
                        id |-> triggerId, loading |-> st.loading,
                        metric |-> metric, payload |-> payload]}]

\* a mutation up to its await: setState({ loading: true }), then the write call
MutationStart(st, T, C, kind, triggerId, metric, payload) ==
    LET m == Len(T) + 1
        st1 == setState(st, [loading |-> TRUE])
    IN [state |-> st1,
        tasks |-> Append(T, Task(kind, "write", triggerId, 0)),
        calls |-> C \cup {WriteCall(C, m, WriteOpOf(kind), triggerId, st1.loading,
                                  metric, payload)}]

\* a payload that adds the minutes to the Unix time as if they were seconds
MaintenancePayload_MinutesAsSeconds(maintenance, metric, now) ==
    LET maintenanceTime == getMaintenanceTime(maintenance)
    IN ObjectOf(<<metric>>,
                <<IF maintenanceTime > 0 THEN now + maintenanceTime
                  ELSE maintenanceTime>>)

\* { [metric]: maintenanceTime > 0 ? moment.utc().add(maintenanceTime, 'minutes').unix()
\*                                 : maintenanceTime }
MaintenancePayload(maintenance, metric, now) ==
    LET maintenanceTime == getMaintenanceTime(maintenance)
    IN ObjectOf(<<metric>>,
                <<IF maintenanceTime > 0 THEN now + 60 * maintenanceTime
                  ELSE maintenanceTime>>)

\* an onSort that keeps the direction when another key is selected
onSort_KeepsDirection(st, newSorting) ==
    IF newSorting = st.sorting
    THEN [st EXCEPT !.sortingDown = ~st.sortingDown]
    ELSE [st EXCEPT !.sorting = newSorting]

\* onSort={newSorting => ...}
onSort(st, newSorting) ==
    IF newSorting = st.sorting
    THEN setState(st, [sortingDown |-> ~st.sortingDown])
    ELSE setState(st, [sorting |-> newSorting, sortingDown |-> TRUE])

Init ==
    /\ state = InitialState
    /\ props \in [id : PropIds]
    /\ mounted = FALSE
    /\ tasks = <<>>
    /\ calls = {}
    /\ items = Null

ComponentDidMount ==
    /\ ~mounted
    /\ mounted' = TRUE
    /\ LET r == getData(tasks, calls, props, 0)
       IN tasks' = r.tasks /\ calls' = r.calls
    /\ items' = RenderItems(state)
    /\ UNCHANGED <<state, props>>

\* await moiraApi.getTrigger(id) resolves; getTriggerState(id) is issued
GetTriggerResolves(t) ==
    /\ tasks[t].kind = "getData" /\ tasks[t].pc = "getTrigger"
    /\ tasks' = [tasks EXCEPT ![t].pc = "getTriggerState",
                              ![t].trigger = [kind |-> "Trigger", cycle |-> t,
                                              id |-> tasks[t].id]]
    /\ calls' = calls \cup {ReadCall(calls, t, "getTriggerState", tasks[t].id)}
    /\ items' = RenderItems(state)
    /\ UNCHANGED <<state, props, mounted>>

\* await moiraApi.getTriggerState(id) resolves; getTriggerEvents(id) is issued
GetTriggerStateResolves(t) ==
    /\ tasks[t].kind = "getData" /\ tasks[t].pc = "getTriggerState"
    /\ \E metrics \in ServerMetrics :
          tasks' = [tasks EXCEPT ![t].pc = "getTriggerEvents",
                                 ![t].triggerState = [kind |-> "TriggerState",
                                                      cycle |-> t,
                                                      metrics |-> metrics]]
    /\ calls' = calls \cup {ReadCall(calls, t, "getTriggerEvents", tasks[t].id)}
    /\ items' = RenderItems(state)
    /\ UNCHANGED <<state, props, mounted>>

\* await moiraApi.getTriggerEvents(id) resolves; the snapshot is committed
GetTriggerEventsResolves(t) ==
    /\ tasks[t].kind = "getData" /\ tasks[t].pc = "getTriggerEvents"
    /\ state' = CommitSuccess(state, tasks[t].trigger, tasks[t].triggerState,
                              [kind |-> "TriggerEvents", cycle |-> t])
    /\ tasks' = [tasks EXCEPT ![t].pc = "done",
                              ![t].trigger = Null, ![t].triggerState = Null]
    /\ items' = RenderItems(state')
    /\ UNCHANGED <<props, mounted, calls>>

\* the read that getData t awaits rejects
ReadRejects(t) ==
    /\ tasks[t].kind = "getData" /\ tasks[t].pc \in ReadPcs
    /\ state' = CommitFailure(state)
    /\ tasks' = [tasks EXCEPT ![t].pc = "failed",
                              ![t].trigger = Null, ![t].triggerState = Null]
    /\ items' = RenderItems(state')
    /\ UNCHANGED <<props, mounted, calls>>

\* a new mutation fits in the bound together with the getData it calls and
\* the getData calls that the pending mutations will make
PendingWrites == {m \in DOMAIN tasks : tasks[m].pc = "write"}
Room == Len(tasks) + Cardinality(PendingWrites) + 2 <= MaxTasks

StartMutation(kind, triggerId, metric, payload, args) ==
    /\ Room
    /\ LET r == MutationStart(state, tasks, calls, kind, triggerId, metric, payload)
       IN /\ state' = r.state
          /\ tasks' = [r.tasks EXCEPT ![Len(r.tasks)].args = args]
          /\ calls' = r.calls
          /\ items' = RenderItems(r.state)
    /\ UNCHANGED <<props, mounted>>

\* onThrottlingRemove
DisableTrhrottling ==
    /\ mounted /\ ShowsTriggerInfo(state)
    /\ StartMutation("disableTrhrottling", state.trigger.id, <<>>, EmptyObject,
                     NoArgs)

\* onChange(maintenance, metric)
SetMaintenance ==
    /\ mounted /\ ShowsMetricList(state)
    /\ \E maintenance \in Maintenances, metric \in KeySet(MetricsOf(state)),
          now \in Times :
          StartMutation("setMaintenance", state.trigger.id, <<>>,
                        MaintenancePayload(maintenance, metric, now),
                        [maintenance |-> maintenance, metric |-> metric,
                         now |-> now])

\* onRemove(metric)
RemoveMetric ==
    /\ mounted /\ ShowsMetricList(state)
    /\ \E metric \in KeySet(MetricsOf(state)) :
          StartMutation("removeMetric", state.trigger.id, metric, EmptyObject,
                        [NoArgs EXCEPT !.metric = metric])

\* the awaited write call of mutation m resolves; getData(this.props) is called
WriteResolves(m) ==
    /\ tasks[m].kind \in MutationKinds /\ tasks[m].pc = "write"
    /\ LET r == getData([tasks EXCEPT ![m].pc = "done"], calls, props, m)
       IN tasks' = r.tasks /\ calls' = r.calls
    /\ items' = RenderItems(state)
    /\ UNCHANGED <<state, props, mounted>>

\* the awaited write call of mutation m rejects; nothing catches it
WriteRejects(m) ==
    /\ tasks[m].kind \in MutationKinds /\ tasks[m].pc = "write"
    /\ tasks' = [tasks EXCEPT ![m].pc = "rejected"]
    /\ items' = RenderItems(state)
    /\ UNCHANGED <<state, props, mounted, calls>>

OnSort ==
    /\ mounted /\ ShowsMetricList(state)
    /\ \E newSorting \in SortKeys : state' = onSort(state, newSorting)
    /\ items' = RenderItems(state')
    /\ UNCHANGED <<props, mounted, tasks, calls>>

Next ==
    \/ ComponentDidMount
    \/ \E t \in DOMAIN tasks : GetTriggerResolves(t)
    \/ \E t \in DOMAIN tasks : GetTriggerStateResolves(t)
    \/ \E t \in DOMAIN tasks : GetTriggerEventsResolves(t)
    \/ \E t \in DOMAIN tasks : ReadRejects(t)
    \/ DisableTrhrottling
    \/ SetMaintenance
    \/ RemoveMetric
    \/ \E m \in DOMAIN tasks : WriteResolves(m)
    \/ \E m \in DOMAIN tasks : WriteRejects(m)
    \/ OnSort

Spec == Init /\ [][Next]_vars

(***************************************************************************)
(* The controller when the id is a string and every API call resolves: no  *)
(* read and no write rejects, and a pending call is eventually answered.   *)
(* React runs componentDidMount once the component is constructed.         *)
(***************************************************************************)
InitLive ==
    /\ Init
    /\ TypeOf(props.id) = "string"

\* some awaited call resolves
Resolves ==
    \E t \in DOMAIN tasks :
        \/ GetTriggerResolves(t)
        \/ GetTriggerStateResolves(t)
        \/ GetTriggerEventsResolves(t)
        \/ WriteResolves(t)

NextLive ==
    \/ ComponentDidMount
    \/ Resolves
    \/ DisableTrhrottling
    \/ SetMaintenance
    \/ RemoveMetric
    \/ OnSort

LiveSpec ==
    /\ InitLive
    /\ [][NextLive]_vars
    /\ WF_vars(ComponentDidMount)
    /\ WF_vars(Resolves)

(***************************************************************************)
(* The sort engine on its own: the controller holds a fetched snapshot     *)
(* whose metric map is drawn from SortInputs, with any sort selection;     *)
(* render applies sortMetrics and the user selects sort keys.              *)
(***************************************************************************)
MetricNames == {<<"b">>, <<" ", "A", "!">>, <<"a">>, <<"1">>}

MetricPool ==
    {[state |-> "OK", event_timestamp |-> 5, value |-> 0],
     [state |-> "ERROR", value |-> 2],
     [state |-> "WARN", event_timestamp |-> 3],
     [state |-> "OK", event_timestamp |-> 3, value |-> 2]}

Injective(f) == \A i, j \in DOMAIN f : f[i] = f[j] => i = j

SortInputs ==
    UNION {{ObjectOf(k, r) : k \in {s \in [1..n -> MetricNames] : Injective(s)},
                             r \in [1..n -> MetricPool]} : n \in 1..MaxMetrics}

InitSort ==
    /\ \E metrics \in SortInputs, sorting \in SortKeys, sortingDown \in BOOLEAN :
          state = [CommitSuccess(InitialState,
                                 [kind |-> "Trigger", cycle |-> 1, id |-> Str("t1")],
                                 [kind |-> "TriggerState", cycle |-> 1,
                                  metrics |-> metrics],
                                 [kind |-> "TriggerEvents", cycle |-> 1])
                   EXCEPT !.sorting = sorting, !.sortingDown = sortingDown]
    /\ props = [id |-> Str("t1")]
    /\ mounted = TRUE
    /\ tasks = <<[Task("getData", "done", Str("t1"), 0) EXCEPT !.pc = "done"]>>
    /\ calls = {[task |-> 1, n |-> 1, op |-> "getTrigger", id |-> Str("t1")],
                [task |-> 1, n |-> 2, op |-> "getTriggerState", id |-> Str("t1")],
                [task |-> 1, n |-> 3, op |-> "getTriggerEvents", id |-> Str("t1")]}
    /\ items = Null

\* render() with the current state
Render ==
    /\ items' = RenderItems(state)
    /\ UNCHANGED <<state, props, mounted, tasks, calls>>

NextSort ==
    \/ Render
    \/ OnSort

SortSpec == InitSort /\ [][NextSort]_vars

(***************************************************************************)
(* Properties                                                              *)
(***************************************************************************)
Data(st) == <<st.trigger, st.triggerState, st.triggerEvents>>

IsGetData(T, t) == T[t].kind = "getData"
IsMutation(T, m) == T[m].kind \in MutationKinds

CallsOf(t) == {c \in calls : c.task = t}

\* C1: all-or-nothing snapshot.  trigger, triggerState and triggerEvents are
\* all three null, or all three are the responses fetched by one and the same
\* getData cycle, and that cycle has committed.
C1_AllOrNothing ==
    \/ Data(state) = <<Null, Null, Null>>
    \/ /\ state.trigger # Null
       /\ state.triggerState # Null
       /\ state.triggerEvents # Null
       /\ state.triggerState.cycle = state.trigger.cycle
       /\ state.triggerEvents.cycle = state.trigger.cycle
       /\ state.trigger.cycle \in DOMAIN tasks
       /\ tasks[state.trigger.cycle].pc = "done"

\* a snapshot is shown while another cycle holds responses it has not committed
C1_Witness ==
    /\ state.trigger # Null
    /\ \E t \in DOMAIN tasks :
          /\ IsGetData(tasks, t)
          /\ tasks[t].triggerState # Null
          /\ t # state.trigger.cycle

\* C2: a getData cycle in which a read rejects leaves trigger, triggerState
\* and triggerEvents as they were: none of its steps (its call, the reads that
\* resolved, the rejection) changes them, and the rejection sets error to the
\* fixed message.
C2_FailedCycleKeepsData ==
    [][\A t \in DOMAIN tasks' :
          (/\ IsGetData(tasks', t)
           /\ tasks'[t].pc # "done"
           /\ (t \in DOMAIN tasks => tasks[t].pc # tasks'[t].pc))
          => /\ Data(state') = Data(state)
             /\ tasks'[t].pc = "failed" => state'.error = NetworkError]_vars

\* two cycles failed while a snapshot was shown, one at its second read and
\* one at its third
C2_Witness ==
    /\ state.trigger # Null
    /\ state.error = NetworkError
    /\ \E t, u \in DOMAIN tasks :
          /\ tasks[t].pc = "failed" /\ Cardinality(CallsOf(t)) = 2
          /\ tasks[u].pc = "failed" /\ Cardinality(CallsOf(u)) = 3

\* C3: the commit of a failed cycle leaves loading as it was, and loading
\* goes from true to false only in the commit of a successful cycle; so
\* after a failed fetch loading stays true until a later cycle succeeds.
IsFailure(t) ==
    /\ IsGetData(tasks, t) /\ tasks[t].pc \in ReadPcs /\ tasks'[t].pc = "failed"
IsSuccess(t) ==
    /\ IsGetData(tasks, t) /\ tasks[t].pc = "getTriggerEvents"
    /\ tasks'[t].pc = "done"

C3_FailureKeepsLoading ==
    [][/\ (\E t \in DOMAIN tasks : IsFailure(t)) => state'.loading = state.loading
       /\ (state.loading /\ ~state'.loading)
            => \E t \in DOMAIN tasks : IsSuccess(t)]_vars

\* the initial fetch has failed: loading and the error are both set
C3_Witness ==
    /\ Len(tasks) = 1
    /\ tasks[1].pc = "failed"
    /\ state.loading
    /\ state.error = NetworkError

\* C4: getData called with an id that is not a string does nothing: the step
\* that calls it changes no field of the state and issues no call, and the
\* invocation never issues one.
C4_NoIdNoOp ==
    [][/\ \A g \in DOMAIN tasks' \ DOMAIN tasks :
             (IsGetData(tasks', g) /\ TypeOf(tasks'[g].id) # "string")
             => /\ state' = state
                /\ calls' = calls
                /\ tasks'[g].pc = "returned"
       /\ \A c \in calls' \ calls :
             ~(IsGetData(tasks', c.task) /\ TypeOf(tasks'[c.task].id) # "string")]_vars

\* componentDidMount has called getData with an id that is not a string
C4_Witness ==
    /\ mounted
    /\ TypeOf(props.id) # "string"
    /\ \E g \in DOMAIN tasks : tasks[g].pc = "returned"
    /\ calls = {}
    /\ state = InitialState

\* C5: every write call was issued with loading already true, and every
\* invocation of a mutation has issued exactly one call, the write call of
\* its kind.
C5_LoadingThenOneWrite ==
    /\ \A c \in calls : c.op \in WriteOps => c.loading = TRUE
    /\ \A m \in DOMAIN tasks :
          IsMutation(tasks, m)
          => /\ Cardinality(CallsOf(m)) = 1
             /\ \A c \in CallsOf(m) : c.op = WriteOpOf(tasks[m].kind)

\* two mutations of different kinds, the second started when loading was false
C5_Witness ==
    \E m, k \in DOMAIN tasks :
        /\ m < k
        /\ IsMutation(tasks, m) /\ IsMutation(tasks, k)
        /\ tasks[m].kind # tasks[k].kind
        /\ tasks[m].pc = "done" /\ tasks[k].pc = "write"
        /\ \E g \in DOMAIN tasks :
              g < k /\ tasks[g].caller = m /\ tasks[g].pc = "done"

\* C6: every mutation whose write call has completed, resolved or rejected,
\* has called getData.
C6_RefreshAfterWrite ==
    \A m \in DOMAIN tasks :
        (IsMutation(tasks, m) /\ tasks[m].pc \in {"done", "rejected"})
        => \E g \in DOMAIN tasks : IsGetData(tasks, g) /\ tasks[g].caller = m

\* C7: at most one mutation is in progress: its write call pending, or the
\* getData cycle it called still reading.
InProgress(m) ==
    /\ IsMutation(tasks, m)
    /\ \/ tasks[m].pc = "write"
       \/ \E g \in DOMAIN tasks :
             /\ IsGetData(tasks, g) /\ tasks[g].caller = m
             /\ tasks[g].pc \in ReadPcs

C7_OneMutationAtATime ==
    Cardinality({m \in DOMAIN tasks : InProgress(m)}) <= 1

SameMapping(out, in) ==
    /\ KeySet(out) = KeySet(in)
    /\ Len(ObjectKeys(out)) = Len(ObjectKeys(in))
    /\ \A k \in KeySet(in) : out.rec[k] = in.rec[k]

C9_PurePermutation ==
    [][/\ items' # Null => SameMapping(items', MetricsOf(state'))
       /\ state'.triggerState = state.triggerState
            => MetricsOf(state') = MetricsOf(state)
       /\ (items # Null /\ state' = state) => items' = items]_vars

C9_Witness ==
    /\ items # Null
    /\ Len(ObjectKeys(items)) >= 3
    /\ ObjectKeys(items) # ObjectKeys(MetricsOf(state))

\* C10: the key order of the mapping sortMetrics returns is the sorted order:
\* no key comes before a key that the comparator of the active sort key and
\* direction ranks strictly before it.
SortedOrder(out, st) ==
    \A i, j \in 1..Len(ObjectKeys(out)) :
        i < j => sortingFn(st.sorting, st.sortingDown, MetricsOf(st),
                           ObjectKeys(out)[i], ObjectKeys(out)[j]) <= 0

C10_SortedOrder == items # Null => SortedOrder(items, state)

\* C11: the map setMaintenance sends has one entry, keyed by the metric it
\* was given; its value is the Unix time read plus 60 times the maintenance
\* duration in minutes when that duration is positive, and the duration
\* itself when it is zero or negative.
C11_MaintenancePayload ==
    \A c \in calls :
        c.op = "setMaintenance"
        => LET a == tasks[c.task].args
               duration == getMaintenanceTime(a.maintenance)
           IN /\ ObjectKeys(c.payload) = <<a.metric>>
              /\ c.payload.rec[a.metric] =
                    IF duration > 0 THEN a.now + 60 * duration ELSE duration

\* one call sent a positive duration and another the duration 0
C11_Witness ==
    \E c, d \in calls :
        /\ c.op = "setMaintenance" /\ d.op = "setMaintenance"
        /\ tasks[c.task].args.maintenance = "quarterHour"
        /\ c.payload.rec[tasks[c.task].args.metric] = tasks[c.task].args.now + 900
        /\ tasks[d.task].args.maintenance = "off"
        /\ d.payload.rec[tasks[d.task].args.metric] = 0
\* C12: the three reads of a getData cycle are issued one after the other
\* for the same id.  getTrigger is issued when the cycle is called;
\* getTriggerState in the step in which the cycle, awaiting getTrigger,
\* receives its response; getTriggerEvents in the step in which the cycle,
\* awaiting getTriggerState, receives its response.  A cycle whose read
\* rejected awaits nothing, so it issues no later read.
IssuedInOrder(c) ==
    CASE c.op = "getTrigger" ->
            /\ c.task \notin DOMAIN tasks
            /\ c.n = 1
      [] c.op = "getTriggerState" ->
            /\ c.task \in DOMAIN tasks
            /\ tasks[c.task].pc = "getTrigger"
            /\ tasks'[c.task].trigger # Null
            /\ c.n = 2
      [] c.op = "getTriggerEvents" ->
            /\ c.task \in DOMAIN tasks
            /\ tasks[c.task].pc = "getTriggerState"
            /\ tasks'[c.task].triggerState # Null
            /\ c.n = 3

C12_SequentialReads ==
    [][\A c \in calls' \ calls :
          c.op \in ReadPcs
          => /\ IssuedInOrder(c)
             /\ c.id = tasks'[c.task].id
             /\ \A d \in calls : d.task = c.task => d.id = c.id]_vars

\* one cycle failed at its first read and issued nothing more, another read
\* all three
C12_Witness ==
    \E t, u \in DOMAIN tasks :
        /\ tasks[t].pc = "failed" /\ Cardinality(CallsOf(t)) = 1
        /\ tasks[u].pc = "done" /\ Cardinality(CallsOf(u)) = 3
\* C13: last completion wins.  The commit of a successful cycle puts its own
\* three responses in the state whatever cycle the data shown came from, so
\* the data are those of the cycle that completed last, even when a cycle
\* called later has already committed.
C13_LastCompletionWins ==
    [][\A t \in DOMAIN tasks :
          IsSuccess(t)
          => /\ state'.trigger.cycle = t
             /\ state'.triggerState.cycle = t
             /\ state'.triggerEvents.cycle = t]_vars

\* two cycles have committed and the data shown are those of the one called
\* first: it completed last and overwrote the snapshot of the one called later
C13_Witness ==
    \E t, u \in DOMAIN tasks :
        /\ t < u
        /\ IsGetData(tasks, t) /\ tasks[t].pc = "done" /\ tasks[t].caller # 0
        /\ IsGetData(tasks, u) /\ tasks[u].pc = "done"
        /\ state.trigger.cycle = t
\* C14: the event comparator is a strict weak ordering over the metrics of
\* the map, those without event_timestamp included: comparing equal is
\* transitive and the sign flips when the arguments are swapped.
C14_EventOrderConsistent ==
    items # Null
    => LET M == MetricsOf(state)
       IN \A down \in BOOLEAN : \A a, b, c \in KeySet(M) :
             /\ eventFn(down, M, a, b) = 0 - eventFn(down, M, b, a)
             /\ (eventFn(down, M, a, b) = 0 /\ eventFn(down, M, b, c) = 0)
                   => eventFn(down, M, a, c) = 0

\* C15: under 'value' a metric without value is ordered as one with value 0.
\* For every metric a of the map that has no value, every metric b and both
\* directions, the comparator gives for a what it gives when a has value 0,
\* on either side; it gives 0 against a metric whose value is 0; and the map
\* sorts to the same key order as the map in which a has value 0.
WithValueZero(M, a) ==
    [M EXCEPT !.rec[a] = [f \in DOMAIN M.rec[a] \cup {"value"} |->
                              IF f = "value" THEN 0 ELSE M.rec[a][f]]]

C15_AbsentValueIsZero ==
    items # Null
    => LET M == MetricsOf(state)
       IN \A a \in KeySet(M) :
             ~HasField(M.rec[a], "value")
             => \A down \in BOOLEAN :
                   /\ \A b \in KeySet(M) :
                         /\ valueFn(down, M, a, b)
                              = valueFn(down, WithValueZero(M, a), a, b)
                         /\ valueFn(down, M, b, a)
                              = valueFn(down, WithValueZero(M, a), b, a)
                         /\ (HasField(M.rec[b], "value") /\ M.rec[b].value = 0)
                               => valueFn(down, M, a, b) = 0
                   /\ ObjectKeys(sortMetrics(M, "value", down))
                        = ObjectKeys(sortMetrics(WithValueZero(M, a), "value", down))

\* a map sorted by value holds a metric without value, one with value 0 and
\* one with value 2
C15_Witness ==
    /\ items # Null
    /\ state.sorting = "value"
    /\ \E a, b, c \in KeySet(items) :
          /\ ~HasField(items.rec[a], "value")
          /\ HasField(items.rec[b], "value") /\ items.rec[b].value = 0
          /\ HasField(items.rec[c], "value") /\ items.rec[c].value = 2

\* C16: under 'name' two names compare equal, in both directions, exactly
\* when they are equal after trimming, removing every character outside
\* [A-Za-z0-9-.] and lowercasing; the keys of the mapping returned are the
\* names as given.
NormalForm(name) == toLowerCase(replace(trim(name)))

C16_NameNormalization ==
    items # Null
    => LET M == MetricsOf(state)
       IN /\ \A down \in BOOLEAN : \A a, b \in KeySet(M) :
                (nameFn(down, M, a, b) = 0) <=> (NormalForm(a) = NormalForm(b))
          /\ state.sorting = "name" => KeySet(items) = KeySet(M)

\* a map sorted by name holds " A!" and "a", which compare equal, under
\* those very keys
C16_Witness ==
    /\ items # Null
    /\ state.sorting = "name"
    /\ <<" ", "A", "!">> \in KeySet(items)
    /\ <<"a">> \in KeySet(items)
    /\ <<"b">> \in KeySet(items)
    /\ nameFn(state.sortingDown, items, <<" ", "A", "!">>, <<"a">>) = 0
\* C17: whenever a mutation is in progress (its write call pending, or the
\* getData cycle it called still reading), loading is true.
C17_LoadingWhileMutating ==
    (\E m \in DOMAIN tasks : InProgress(m)) => state.loading

\* C18: error is never cleared: once it holds the fixed message it holds it
\* in every later state, through successful commits, mutations and sort
\* selections.
C18_ErrorNeverCleared ==
    [][state.error = NetworkError => state'.error = NetworkError]_vars

\* a cycle failed, a cycle called after it has committed fresh data with
\* loading false, and the error is still set
C18_Witness ==
    /\ state.error = NetworkError
    /\ ~state.loading
    /\ \E t \in DOMAIN tasks :
          /\ tasks[t].pc = "failed"
          /\ state.trigger # Null
          /\ state.trigger.cycle > t

\* C20: frame of the sort selection.  sorting and sortingDown start as
\* 'value' and true; a step that changes either of them changes no other
\* field of the state, issues no call and starts or advances no invocation;
\* so no commit and no mutation changes them.
SortSelection(st) == <<st.sorting, st.sortingDown>>
RestOfState(st) == <<st.loading, st.error, st.trigger, st.triggerState, st.triggerEvents>>

C20_SortFrame ==
    /\ SortSelection(state) = <<"value", TRUE>>
    /\ [][SortSelection(state') # SortSelection(state)
            => /\ RestOfState(state') = RestOfState(state)
               /\ calls' = calls
               /\ tasks' = tasks]_vars

\* with another sort selection made, a mutation and the commit of its
\* refresh have gone by and a further mutation is pending
C20_Witness ==
    /\ SortSelection(state) = <<"event", FALSE>>
    /\ state.trigger.cycle > 1
    /\ PendingWrites # {}
\* C19: when the id is a string, every API call resolves and the mutations
\* are finitely many, the controller reaches a state with loading false and
\* the three data fields populated, and loading stays false from then on.
Populated(st) ==
    /\ st.trigger # Null
    /\ st.triggerState # Null
    /\ st.triggerEvents # Null

C19_EventuallyLoaded ==
    <>[](~state.loading /\ Populated(state))

\* two mutations overlapped, both refreshes have committed and nothing is
\* pending: loading is false
C19_Witness ==
    /\ ~state.loading
    /\ Populated(state)
    /\ Len(tasks) = 5
    /\ \A t \in DOMAIN tasks : tasks[t].pc = "done"
    /\ IsMutation(tasks, 2) /\ IsMutation(tasks, 3)
====
